---- MODULE Spec2Model ----
(***************************************************************************)
(* klog-to-logr: a source-to-source migration tool.                        *)
(*                                                                         *)
(* Three parts of the repository are modelled, each with its own           *)
(* specification over the shared variables:                                *)
(*   SpecImporter  importer.KindaFastImporter (ImportFrom, the resolution  *)
(*                 cache, parsePackageFiles and its parse goroutines)      *)
(*   SpecFixer     fixer.Fixer (FixPackage, fixFile, HandleFix)            *)
(*   SpecLogr      fixes.logrFix (fix and its four handlers, fixInfo,      *)
(*                 fixError) run by fixFile on one file, twice             *)
(***************************************************************************)
EXTENDS Integers, Sequences, FiniteSets, TLC

(***************************************************************************)
(* Bounds of the model.                                                    *)
(***************************************************************************)
\* top-level ImportFrom requests made on one importer
MaxCalls == 2
\* source files of one package (buildPkg.GoFiles)
MaxFiles == 2
\* import declarations of one package
MaxImports == 1
\* files of the package given to FixPackage (pkg.Files)
NumFiles == 2
\* registered fixes (Fixer.Fixes)
NumFixes == 2
\* arguments of a klog call in the files given to the logr fix
MaxArgs == 3

\* The import paths the importer is asked about.
Paths == {"a", "b", "c"}

None == "none"

VARIABLES
    \* ---- importer.KindaFastImporter
    packages,   \* i.packages: path -> Absent | Loading | PackageInfo
    imports,    \* the import declarations of each package's source files
    stack,      \* the chain of ImportFrom activations (Check recursion)
    calls,      \* top-level requests made so far
    first,      \* the path of the current top-level request
    result,     \* what the last top-level ImportFrom returned
    lastRet,    \* what the last ImportFrom (top-level or nested) returned
    io,         \* the fast import, build lookup, parse or type check just made
    nextId,     \* allocation counter of types.Package values
    closedBy,   \* the path whose request hit the in-progress sentinel
    sourced,    \* paths whose files were parsed during the current request
    pending,    \* parse goroutines of the running parsePackageFiles
    files,      \* its files slice
    errors,     \* its errors slice
    order,      \* completion order of its goroutines
    \* ---- fixer.Fixer (and doPkg/doFile of the kfix command)
    variant,    \* "fixer": Fixer.FixPackage; "kfix": doPkg with the -diff flag
    doDiff,     \* the -diff flag of kfix
    efile,      \* index of the file FixPackage is at
    epc,        \* position inside FixPackage/fixFile
    erule,      \* index of the fix the loop of fixFile is at
    fixed,      \* the local `fixed` of fixFile
    gen,        \* generation of the tree info.AST points to
    elog,       \* the Execute calls made on the current file
    hist,       \* per file: what happened while it was processed
    out,        \* the output steps made (HandleFix, diff or write)
    \* ---- fixes.logrFix, run by fixFile as the only registered fix
    orig,       \* the file as given to the first run
    lfile,      \* f.info.AST: the import specs and the statements
    lpc,        \* position inside fix and the fixFile around it
    cur,        \* index of the statement the cursor of astutil.Apply is at
    pkgName,    \* the local pkgName of fix
    pass,       \* 1: the first run; 2: a second run on the migrated file
    fixret,     \* what fix returned
    warnings,   \* "more than one argument has type `error`" lines printed
    visited,    \* indices of the statements the callback was called for
    louts,      \* output steps (HandleFix) of the current run
    res1        \* the file as the first run left it, and what fix returned

ivars == <<packages, imports, stack, calls, first, result, lastRet, io,
           nextId, closedBy, sourced, pending, files, errors, order>>

evars == <<variant, doDiff, efile, epc, erule, fixed, gen, elog, hist, out>>

lvars == <<orig, lfile, lpc, cur, pkgName, pass, fixret, warnings, visited,
           louts, res1>>

vars == <<ivars, evars, lvars>>

(***************************************************************************)
(* importer.KindaFastImporter                                              *)
(***************************************************************************)
Absent == [state |-> "absent"]      \* no entry in i.packages
Loading == [state |-> "loading"]    \* a nil-but-present entry
PackageInfoWithATree(b, t, f) ==
    [state |-> "loaded", BuildInfo |-> b, ParseInfo |-> t,
     Files |-> <<[path |-> b.path, file |-> 1]>>]
PackageInfo(b, t, f) ==
    [state |-> "loaded", BuildInfo |-> b, ParseInfo |-> t, Files |-> f]
NoResult == [ok |-> FALSE, kind |-> "none"]
NoReturn == [path |-> None, ret |-> NoResult, how |-> None]

Range(s) == {s[k] : k \in 1..Len(s)}

\* The import lists a package's files may declare: distinct other paths.
RECURSIVE ImportListsUpTo(_, _)
ImportListsUpTo(others, n) ==
    IF n = 0 THEN {<<>>}
    ELSE {<<>>} \cup
         UNION {{<<q>> \o l : l \in ImportListsUpTo(others \ {q}, n - 1)} :
                  q \in others}
ImportLists(p) == ImportListsUpTo(Paths \ {p}, MaxImports)

Populated(p) == packages[p].state = "loaded"

\* fmt.Errorf("import loop detected for package %s", ident)
CycleError(p) == [ok |-> FALSE, kind |-> "cycle", path |-> p, file |-> 0]
BuildLookupError(p) == [ok |-> FALSE, kind |-> "build", path |-> p, file |-> 0]
ParseError(p, k) == [ok |-> FALSE, kind |-> "parse", path |-> p, file |-> k]
TypeCheckError(p) == [ok |-> FALSE, kind |-> "type", path |-> p, file |-> 0]
Ok(pkg) == [ok |-> TRUE, pkg |-> pkg]

NoError == [ok |-> TRUE]
NoTree == [path |-> None, file |-> 0]
Tree(p, k) == [path |-> p, file |-> k]

\* The `if pkg, present := i.packages[ident]; present` test of ImportFrom.
CacheLookupAlwaysMiss(p) == "miss"
CacheLookupNoSentinel(p) ==
    IF Populated(p) THEN "hit" ELSE "miss"
CacheLookup(p) ==
    IF packages[p].state = "absent" THEN "miss"
    ELSE IF packages[p].state = "loading" THEN "loop"
    ELSE "hit"

NewFrame(p) == [path |-> p, pc |-> "fast", idx |-> 1, n |-> 0,
                files |-> <<>>, ret |-> NoError]

Top == stack[Len(stack)]
SetTop(f) == [stack EXCEPT ![Len(stack)] = f]
NoIO == [path |-> None, op |-> None]
Did(p, what) == [path |-> p, op |-> what]

NoParse ==
    /\ pending = {}
    /\ files = <<>>
    /\ errors = <<>>
    /\ order = <<>>

InitImporterWith(graphs) ==
    /\ packages = [p \in Paths |-> Absent]
    /\ imports \in graphs
    /\ stack = <<>>
    /\ calls = 0
    /\ first = None
    /\ result = NoResult
    /\ lastRet = NoReturn
    /\ io = NoIO
    /\ nextId = 1
    /\ closedBy = None
    /\ sourced = {}
    /\ NoParse

\* The import graphs of the model, and the one of a run without importer.
Graphs == {f \in [Paths -> UNION {ImportLists(p) : p \in Paths}] :
              \A p \in Paths : f[p] \in ImportLists(p)}
NoGraph == {[p \in Paths |-> <<>>]}

\* A top-level ImportFrom(path, srcDir, mode): lines 380-395.
Request(p) ==
    /\ UNCHANGED <<evars, lvars>>
    /\ stack = <<>>
    /\ calls < MaxCalls
    /\ calls' = calls + 1
    /\ first' = p
    /\ sourced' = {}
    /\ LET c == CacheLookup(p) IN
       CASE c = "hit" ->
              /\ result' = Ok(packages[p].ParseInfo)
              /\ lastRet' = [path |-> p, ret |-> Ok(packages[p].ParseInfo), how |-> "hit"]
              /\ closedBy' = None
              /\ UNCHANGED <<packages, stack>>
         [] c = "loop" ->
              /\ result' = CycleError(p)
              /\ lastRet' = [path |-> p, ret |-> CycleError(p), how |-> "loop"]
              /\ closedBy' = p
              /\ UNCHANGED <<packages, stack>>
         [] OTHER ->
              /\ packages' = [packages EXCEPT ![p] = Loading]
              /\ stack' = <<NewFrame(p)>>
              /\ result' = NoResult
              /\ closedBy' = None
              /\ UNCHANGED lastRet
    /\ io' = NoIO
    /\ UNCHANGED <<imports, nextId, pending, files, errors, order>>

\* i.fastImporter.ImportFrom(path, fullDir, mode): lines 397-417.
FastImport ==
    /\ UNCHANGED <<evars, lvars>>
    /\ stack # <<>>
    /\ Top.pc = "fast"
    /\ \E ok \in BOOLEAN :
          stack' = SetTop([Top EXCEPT !.pc = IF ok THEN "fastbuild" ELSE "build"])
    /\ io' = Did(Top.path, "fast")
    /\ UNCHANGED <<packages, imports, calls, first, result, lastRet, nextId,
                   closedBy, sourced, pending, files, errors, order>>

\* After a fast import: build.Default.Import(.., AllowBinary|FindOnly) and
\* the cache entry without syntax trees: lines 405-413.
FastBuildLookup ==
    /\ UNCHANGED <<evars, lvars>>
    /\ stack # <<>>
    /\ Top.pc = "fastbuild"
    /\ io' = Did(Top.path, "build")
    /\ \E ok \in BOOLEAN :
          IF ok
          THEN LET pkg == [id |-> nextId, path |-> Top.path, via |-> "fast"] IN
               /\ packages' = [packages EXCEPT ![Top.path] =
                                  PackageInfo([path |-> Top.path, n |-> 0],
                                              pkg, <<>>)]
               /\ nextId' = nextId + 1
               /\ stack' = SetTop([Top EXCEPT !.pc = "return", !.ret = Ok(pkg)])
          ELSE /\ stack' = SetTop([Top EXCEPT !.pc = "return",
                                              !.ret = BuildLookupError(Top.path)])
               /\ UNCHANGED <<packages, nextId>>
    /\ UNCHANGED <<imports, calls, first, result, lastRet, closedBy, sourced,
                   pending, files, errors, order>>

\* build.Default.Import(path, fullDir, build.AllowBinary), then the start of
\* parsePackageFiles: the slices and one goroutine per file (lines 420-458).
BuildLookup ==
    /\ UNCHANGED <<evars, lvars>>
    /\ stack # <<>>
    /\ Top.pc = "build"
    /\ io' = Did(Top.path, "build")
    /\ \/ /\ stack' = SetTop([Top EXCEPT !.pc = "return",
                                         !.ret = BuildLookupError(Top.path)])
          /\ UNCHANGED <<pending, files, errors, order>>
       \/ LET n == MaxFiles IN
            /\ stack' = SetTop([Top EXCEPT !.pc = "parse", !.n = n])
            /\ pending' = 1..n
            /\ files' = [k \in 1..n |-> NoTree]
            /\ errors' = [k \in 1..n |-> NoError]
            /\ order' = <<>>
    /\ UNCHANGED <<packages, imports, calls, first, result, lastRet, nextId,
                   closedBy, sourced>>

\* One parse goroutine: files[ind], errors[ind] = parser.ParseFile(...).
\* SlotOf is the index the goroutine of file k writes (its own copy of ind).
SlotOfLast(k, n) == n
SlotOf(k, n) == k

ParseTask(k) ==
    /\ UNCHANGED <<evars, lvars>>
    /\ stack # <<>>
    /\ Top.pc = "parse"
    /\ k \in pending
    /\ pending' = pending \ {k}
    /\ \E good \in BOOLEAN :
          LET s == SlotOf(k, Top.n) IN
          /\ order' = Append(order, [file |-> k, good |-> good])
          /\ IF good
             THEN /\ files' = [files EXCEPT ![s] = Tree(Top.path, k)]
                  /\ errors' = [errors EXCEPT ![s] = NoError]
             ELSE /\ files' = [files EXCEPT ![s] = NoTree]
                  /\ errors' = [errors EXCEPT ![s] = ParseError(Top.path, k)]
    /\ io' = Did(Top.path, "parse")
    /\ UNCHANGED <<packages, imports, stack, calls, first, result, lastRet,
                   nextId, closedBy, sourced>>

\* The loop after wg.Wait(): lines 461-472.
RECURSIVE FirstErrorFrom(_, _)
FirstErrorFrom(errs, k) ==
    IF k > Len(errs) THEN NoError
    ELSE IF ~errs[k].ok THEN errs[k]
    ELSE FirstErrorFrom(errs, k + 1)

RECURSIVE LastErrorFrom(_, _)
LastErrorFrom(errs, k) ==
    IF k = 0 THEN NoError
    ELSE IF ~errs[k].ok THEN errs[k]
    ELSE LastErrorFrom(errs, k - 1)

FirstErrorByCompletion(errs, done) ==
    IF \E j \in 1..Len(done) : ~errs[done[j].file].ok
    THEN errs[done[CHOOSE j \in 1..Len(done) :
                     /\ ~errs[done[j].file].ok
                     /\ \A i \in 1..(j - 1) : errs[done[i].file].ok].file]
    ELSE NoError

FirstErrorLast(errs, done) == LastErrorFrom(errs, Len(errs))
FirstError(errs, done) == FirstErrorFrom(errs, 1)

\* wg.Wait() and the return of parsePackageFiles into ImportFrom
\* (lines 427-430, 459-472).
ParseJoin ==
    /\ UNCHANGED <<evars, lvars>>
    /\ stack # <<>>
    /\ Top.pc = "parse"
    /\ pending = {}
    /\ LET e == FirstError(errors, order) IN
       IF e.ok
       THEN stack' = SetTop([Top EXCEPT !.pc = "check", !.idx = 1, !.files = files])
       ELSE stack' = SetTop([Top EXCEPT !.pc = "return", !.ret = e, !.files = files])
    /\ sourced' = IF FirstError(errors, order).ok
                  THEN sourced \cup {Top.path} ELSE sourced
    /\ io' = NoIO
    /\ pending' = {}
    /\ files' = <<>>
    /\ errors' = <<>>
    /\ UNCHANGED <<packages, imports, calls, first, result, lastRet, nextId,
                   closedBy, order>>

\* i.config.Check resolving the next import declaration through
\* i.ImportFrom (types.Config.Importer = i, line 370; lines 384-395).
\* The checker stops at the first error (Config.Error is nil).
CheckImport ==
    /\ UNCHANGED <<evars, lvars>>
    /\ stack # <<>>
    /\ Top.pc = "check"
    /\ Top.idx <= Len(imports[Top.path])
    /\ LET q == imports[Top.path][Top.idx]
           c == CacheLookup(q) IN
       CASE c = "hit" ->
              /\ stack' = SetTop([Top EXCEPT !.idx = @ + 1])
              /\ lastRet' = [path |-> q, ret |-> Ok(packages[q].ParseInfo), how |-> "hit"]
              /\ UNCHANGED <<packages, closedBy>>
         [] c = "loop" ->
              /\ stack' = SetTop([Top EXCEPT !.pc = "return", !.ret = CycleError(q)])
              /\ lastRet' = [path |-> q, ret |-> CycleError(q), how |-> "loop"]
              /\ closedBy' = q
              /\ UNCHANGED packages
         [] OTHER ->
              /\ packages' = [packages EXCEPT ![q] = Loading]
              /\ stack' = Append(stack, NewFrame(q))
              /\ UNCHANGED <<lastRet, closedBy>>
    /\ io' = NoIO
    /\ UNCHANGED <<imports, calls, first, result, nextId, sourced,
                   pending, files, errors, order>>

\* The rest of i.config.Check and the cache entry with the syntax trees
\* (lines 432-443).
TypeCheck ==
    /\ UNCHANGED <<evars, lvars>>
    /\ stack # <<>>
    /\ Top.pc = "check"
    /\ Top.idx > Len(imports[Top.path])
    /\ io' = Did(Top.path, "check")
    /\ \E ok \in BOOLEAN :
          IF ok
          THEN LET pkg == [id |-> nextId, path |-> Top.path, via |-> "source"] IN
               /\ packages' = [packages EXCEPT ![Top.path] =
                                  PackageInfo([path |-> Top.path, n |-> Top.n],
                                              pkg, Top.files)]
               /\ nextId' = nextId + 1
               /\ stack' = SetTop([Top EXCEPT !.pc = "return", !.ret = Ok(pkg)])
          ELSE /\ stack' = SetTop([Top EXCEPT !.pc = "return",
                                              !.ret = TypeCheckError(Top.path)])
               /\ UNCHANGED <<packages, nextId>>
    /\ UNCHANGED <<imports, calls, first, result, lastRet, closedBy, sourced,
                   pending, files, errors, order>>

\* ImportFrom returns to its caller: the top-level request, or the Check of
\* the importing package, which fails with the import's error.
Return ==
    /\ UNCHANGED <<evars, lvars>>
    /\ stack # <<>>
    /\ Top.pc = "return"
    /\ lastRet' = [path |-> Top.path, ret |-> Top.ret, how |-> "load"]
    /\ LET rest == SubSeq(stack, 1, Len(stack) - 1) IN
       IF rest = <<>>
       THEN /\ stack' = <<>>
            /\ result' = Top.ret
       ELSE LET caller == rest[Len(rest)] IN
            /\ result' = result
            /\ stack' = [rest EXCEPT ![Len(rest)] =
                  IF Top.ret.ok
                  THEN [caller EXCEPT !.idx = @ + 1]
                  ELSE [caller EXCEPT !.pc = "return", !.ret = Top.ret]]
    /\ io' = NoIO
    /\ UNCHANGED <<packages, imports, calls, first, nextId, closedBy,
                   sourced, pending, files, errors, order>>

NextImporter ==
    \/ \E p \in Paths : Request(p)
    \/ FastImport
    \/ FastBuildLookup
    \/ BuildLookup
    \/ \E k \in 1..MaxFiles : ParseTask(k)
    \/ ParseJoin
    \/ CheckImport
    \/ TypeCheck
    \/ Return

(***************************************************************************)
(* fixer.Fixer: FixPackage and fixFile (src/fixer/fixer.go), and the older *)
(* doPkg and doFile of the kfix command, which read the file first, format *)
(* once more after the loop and then print a diff or write the file.       *)
(***************************************************************************)
NoHist == [changed |-> FALSE, stable |-> TRUE, returned |-> FALSE]

InitFixerAt(v, d) ==
    /\ variant = v
    /\ doDiff = d
    /\ efile = 1
    /\ epc = "next"
    /\ erule = 1
    /\ fixed = FALSE
    /\ gen = 0
    /\ elog = <<>>
    /\ hist = [f \in 1..NumFiles |-> NoHist]
    /\ out = <<>>

\* Fixer.FixPackage, or doPkg with or without -diff.
Engines == {<<"fixer", FALSE>>, <<"kfix", FALSE>>, <<"kfix", TRUE>>}

\* fixFile returned for the current file: nil lets the loop of FixPackage go
\* on, an error makes FixPackage return it.
FileReturns(ok) ==
    /\ hist' = [hist EXCEPT ![efile].returned = TRUE]
    /\ IF ok
       THEN efile' = efile + 1 /\ epc' = "next"
       ELSE efile' = efile /\ epc' = "failed"

\* for i, ast := range pkg.Files: the call of fixFile (fixer.go:40-50).
StartFile ==
    /\ UNCHANGED <<ivars, lvars>>
    /\ epc = "next"
    /\ efile <= NumFiles
    /\ epc' = IF variant = "kfix" THEN "read" ELSE "rule"
    /\ erule' = 1
    /\ fixed' = FALSE
    /\ gen' = 0
    /\ elog' = <<>>
    /\ UNCHANGED <<variant, doDiff, efile, hist, out>>

\* The end of the loop of FixPackage: return nil (fixer.go:53).
PackageDone ==
    /\ UNCHANGED <<ivars, lvars>>
    /\ epc = "next"
    /\ efile > NumFiles
    /\ epc' = "done"
    /\ UNCHANGED <<variant, doDiff, efile, erule, fixed, gen, elog, hist, out>>

\* doFile only: src, err := readFile(filename) (part_004:189-193).
ReadFile ==
    /\ UNCHANGED <<ivars, lvars>>
    /\ epc = "read"
    /\ \E ok \in BOOLEAN :
          IF ok
          THEN epc' = "rule" /\ UNCHANGED <<efile, hist>>
          ELSE FileReturns(FALSE)
    /\ UNCHANGED <<variant, doDiff, erule, fixed, gen, elog, out>>

\* if fix.Execute(info, ...) { fixed = true ... } (fixer.go:59-61).
\* f.Loader, which fixFile hands to every Execute: its TypeInfo() is the
\* types.Info the importer filled when the package was loaded, keyed by the
\* nodes of the trees parsed then, the generation every file starts at.
LoadedGen == 0

Execute ==
    /\ UNCHANGED <<ivars, lvars>>
    /\ epc = "rule"
    /\ erule <= NumFixes
    /\ \E changed \in BOOLEAN :
          /\ elog' = Append(elog, [rule |-> erule, gen |-> gen, changed |-> changed,
                                    types |-> LoadedGen])
          /\ IF changed
             THEN /\ fixed' = TRUE
                  /\ epc' = "gofmt"
                  /\ erule' = erule
                  /\ hist' = [hist EXCEPT ![efile].changed = TRUE]
             ELSE /\ erule' = erule + 1
                  /\ UNCHANGED <<fixed, epc, hist>>
    /\ UNCHANGED <<variant, doDiff, efile, gen, out>>

\* newSrc, err := GofmtFile(info.AST, ...) (fixer.go:67-70).
Gofmt ==
    /\ UNCHANGED <<ivars, lvars>>
    /\ epc = "gofmt"
    /\ \E ok \in BOOLEAN :
          IF ok
          THEN epc' = "parse" /\ UNCHANGED <<efile, hist>>
          ELSE /\ hist' = [hist EXCEPT ![efile].stable = FALSE,
                                       ![efile].returned = TRUE]
               /\ epc' = "failed"
               /\ UNCHANGED efile
    /\ UNCHANGED <<variant, doDiff, erule, fixed, gen, elog, out>>

\* The tree the next fix is given after a successful parser.ParseFile:
\* info.AST is assigned the fresh tree.
ReparsedGenStale(g) == g
ReparsedGen(g) == g + 1

\* info.AST, err = parser.ParseFile(...) (fixer.go:71-74), then the next fix.
Reparse ==
    /\ UNCHANGED <<ivars, lvars>>
    /\ epc = "parse"
    /\ \E ok \in BOOLEAN :
          IF ok
          THEN /\ gen' = ReparsedGen(gen)
               /\ erule' = erule + 1
               /\ epc' = "rule"
               /\ UNCHANGED <<efile, hist>>
          ELSE /\ hist' = [hist EXCEPT ![efile].stable = FALSE,
                                       ![efile].returned = TRUE]
               /\ epc' = "failed"
               /\ UNCHANGED <<efile, gen, erule>>
    /\ UNCHANGED <<variant, doDiff, fixed, elog, out>>

\* if !fixed { return nil } (fixer.go:77-79).
NeedsOutputAlways(fx) == TRUE
NeedsOutput(fx) == fx

\* The loop over f.Fixes is over (fixer.go:76-81).
RulesDone ==
    /\ UNCHANGED <<ivars, lvars>>
    /\ epc = "rule"
    /\ erule > NumFixes
    /\ IF NeedsOutput(fixed)
       THEN /\ epc' = IF variant = "kfix" THEN "finalfmt" ELSE "handle"
            /\ UNCHANGED <<efile, hist>>
       ELSE FileReturns(TRUE)
    /\ UNCHANGED <<variant, doDiff, erule, fixed, gen, elog, out>>

\* doFile only: the gofmtFile after the loop (part_004:219-228).
FinalGofmt ==
    /\ UNCHANGED <<ivars, lvars>>
    /\ epc = "finalfmt"
    /\ \E ok \in BOOLEAN :
          IF ok
          THEN epc' = "handle" /\ UNCHANGED <<efile, hist>>
          ELSE /\ hist' = [hist EXCEPT ![efile].stable = FALSE,
                                       ![efile].returned = TRUE]
               /\ epc' = "failed"
               /\ UNCHANGED efile
    /\ UNCHANGED <<variant, doDiff, erule, fixed, gen, elog, out>>

\* return f.HandleFix(info) (fixer.go:81); in doFile the diff that is
\* printed or the ioutil.WriteFile (part_004:230-240).
HandleFix ==
    /\ UNCHANGED <<ivars, lvars>>
    /\ epc = "handle"
    /\ out' = Append(out, [file |-> efile,
                           kind |-> IF variant = "fixer" THEN "HandleFix"
                                    ELSE IF doDiff THEN "diff" ELSE "write",
                           gen |-> gen,
                           ran |-> Len(elog)])
    /\ \E ok \in BOOLEAN : FileReturns(ok)
    /\ UNCHANGED <<variant, doDiff, erule, fixed, gen, elog>>

NextFixer ==
    \/ StartFile
    \/ PackageDone
    \/ ReadFile
    \/ Execute
    \/ Gofmt
    \/ Reparse
    \/ RulesDone
    \/ FinalGofmt
    \/ HandleFix

(***************************************************************************)
(* fixes.logrFix (part_003): the logr fix on one file.                     *)
(*                                                                         *)
(* A file is its import specs and one statement list.  A statement is      *)
(*   kind "call":  a call X.Sel(Args), as an expression statement that is  *)
(*                 an element of a statement list (ctx "list"), as an      *)
(*                 expression statement that is not (ctx "single": the     *)
(*                 statement of a label, the init of an if/for/switch), or *)
(*                 inside another statement or expression (ctx "expr");    *)
(*   kind "ref":   a selector X.Sel that is not called;                    *)
(*   kind "plain": a statement with no selector.                           *)
(* X is an identifier (form "ident") or a call name.V(n) (form "vcall");   *)
(* obj says whether the parser bound the identifier to a declaration, typ  *)
(* is the type the type checker recorded for X, as the tokens of its       *)
(* String().  An argument is its source text, its node shape and whether   *)
(* its type implements error.                                              *)
(***************************************************************************)
StandardKlogPkg == "k8s.io/klog"
TargetPkg == "k8s.io/client-go/log"
OtherPkg == "fmt"
\* bldpkg.Name of the klog package
KlogName == "klog"
KlogAlias == "glog"

Quote(t) == "\"" \o t \o "\""

\* strconv.Unquote of an import path literal; "" if not properly quoted.
Unquote(v) ==
    LET known == {StandardKlogPkg, TargetPkg, OtherPkg} IN
    IF \E q \in known : Quote(q) = v
    THEN CHOOSE q \in known : Quote(q) = v
    ELSE ""

importPath(spec) == Unquote(spec.Path)

\* getImportSpec: the index of the first import spec of pkg, 0 for nil.
getImportSpecAny(imps, pkg) == IF Len(imps) > 0 THEN 1 ELSE 0
getImportSpec(imps, pkg) ==
    IF \E k \in 1..Len(imps) : importPath(imps[k]) = pkg
    THEN CHOOSE k \in 1..Len(imps) :
            /\ importPath(imps[k]) = pkg
            /\ \A j \in 1..(k - 1) : importPath(imps[j]) # pkg
    ELSE 0

\* Types, as the tokens of types.Type.String(); NoType is a nil Type.
NoType == <<>>
KlogVerbose == <<"k8s", ".", "io/klog", ".", "Verbose">>
IntType == <<"int">>
LocalType == <<"main", ".", "T">>

RECURSIVE Concat(_)
Concat(toks) == IF toks = <<>> THEN "" ELSE Head(toks) \o Concat(Tail(toks))

\* strings.LastIndexByte(t.String(), '.'), 0 when there is none.
LastDot(t) ==
    IF \E k \in 1..Len(t) : t[k] = "."
    THEN CHOOSE k \in 1..Len(t) : t[k] = "." /\ \A j \in (k + 1)..Len(t) : t[j] # "."
    ELSE 0

FatalNames == {"Fatal", "Fatalf", "Fatalln"}
InfoNames == {"Info", "Infof", "Infoln", "Warning", "Warningf", "Warningln"}
ErrorNames == {"Error", "Errorf", "Errorln"}
VerboseInfoNames == {"Info", "Infof", "Infoln"}

UnknownErrorExpr == "FIXME__unknown_error_expr"
UnknownKey == "FIXME__unknown_key"
InitFlagsMarker == "FIXME__InitFlags_is_not_supported"

Arg(shape, text, isErr) == [shape |-> shape, text |-> text, err |-> isErr]
StrLit(text) == Arg("strlit", text, FALSE)

Ident(name, obj, typ) == [form |-> "ident", name |-> name, obj |-> obj, typ |-> typ]
VCall(name, obj, typ) == [form |-> "vcall", name |-> name, obj |-> obj, typ |-> typ]

\* newIdent("log", pos): a new identifier, unknown to parser and checker.
LogIdent == Ident("log", FALSE, NoType)

Stmt(kind, ctx, x, sel, args) ==
    [kind |-> kind, ctx |-> ctx, x |-> x, sel |-> sel, args |-> args,
     inserted |-> FALSE]

PlainStmt == Stmt("plain", "list", Ident("x", TRUE, IntType), "", <<>>)

\* The statement tryPkgStmtCall inserts: os.Exit(255).
ExitStmt ==
    [Stmt("call", "list", Ident("os", FALSE, NoType), "Exit",
          <<Arg("intlit", "255", FALSE)>>) EXCEPT !.inserted = TRUE]

isPkgIdentByName(pkg, id) == id.name = pkg
isPkgIdent(pkg, id) == id.name = pkg /\ ~id.obj

MinOf(S) == CHOOSE a \in S : \A b \in S : a <= b

RemoveAt(seq, i) == SubSeq(seq, 1, i - 1) \o SubSeq(seq, i + 1, Len(seq))

\* getFormatString does not panic: there is a first argument, it is a
\* basic literal, and its kind is STRING.
FormatOkAnyFirst(args) == Len(args) > 0
FormatOk(args) ==
    /\ Len(args) > 0
    /\ args[1].shape \in {"strlit", "intlit"}
    /\ args[1].shape = "strlit"

\* The key of one key/value pair.
KeyForAlwaysUnknown(arg) == Quote(UnknownKey)
KeyFor(arg) == IF arg.shape = "ident" THEN Quote(arg.text) ELSE Quote(UnknownKey)

\* "Generate the key-value args": the loop over callexpr.Args from the
\* second argument on.
RECURSIVE KeyValues(_, _)
KeyValues(args, i) ==
    IF i > Len(args) THEN <<>>
    ELSE <<StrLit(KeyFor(args[i])), args[i]>> \o KeyValues(args, i + 1)

Fixed(node, panic, warned) == [node |-> node, panic |-> panic, warned |-> warned]

fixInfo(node) ==
    LET renamed == [node EXCEPT !.sel = "Info"] IN
    IF ~FormatOk(node.args)
    THEN Fixed(renamed, TRUE, 0)
    ELSE Fixed([renamed EXCEPT !.args = <<node.args[1]>> \o KeyValues(node.args, 2)],
               FALSE, 0)

\* errIndex = isErrorType[0]
PickErrorLast(errs) == CHOOSE a \in errs : \A b \in errs : a >= b
PickError(errs) == MinOf(errs)

\* the WARNING line is printed if len(isErrorType) > 1
WarnedPerCandidate(errs) == Cardinality(errs)
Warned(errs) == IF Cardinality(errs) > 1 THEN 1 ELSE 0

\* "remove it from the args list"
WithoutError(args, errIndex) ==
    IF errIndex > 0 THEN RemoveAt(args, errIndex) ELSE args

fixError(node) ==
    LET errs == {i \in 1..Len(node.args) : node.args[i].err}
        errIndex == IF errs # {} THEN PickError(errs) ELSE 0
        errExpr == IF errIndex > 0 THEN node.args[errIndex].text
                   ELSE UnknownErrorExpr
        rest == WithoutError(node.args, errIndex)
        renamed == [node EXCEPT !.sel = "Error", !.args = rest]
    IN IF ~FormatOk(rest)
       THEN Fixed(renamed, TRUE, Warned(errs))
       ELSE Fixed([renamed EXCEPT !.args =
                      <<Arg("ident", errExpr, errIndex > 0), rest[1]>>
                          \o KeyValues(rest, 2)],
                  FALSE, Warned(errs))

fixInitFlagsKeep(node) == node
fixInitFlags(node) == [node EXCEPT !.sel = InitFlagsMarker]

\* The state of the callback of astutil.Apply on one statement: its node,
\* whether a handler panicked, the warnings printed and whether
\* cursor.InsertAfter inserted the exit statement.
Walk(node, panic, warned, insert) ==
    [node |-> node, panic |-> panic, warned |-> warned, insert |-> insert]

Renamed(node) == [node EXCEPT !.x = LogIdent]

tryPkgStmtCall(name, w) ==
    LET node == w.node IN
    IF \/ w.panic
       \/ node.kind # "call"
       \/ node.ctx \notin {"list", "single"}
       \/ node.x.form # "ident"
       \/ ~isPkgIdent(name, node.x)
    THEN w
    ELSE IF node.sel \in FatalNames
    THEN LET r == fixError(node) IN
         IF r.panic
         THEN Walk(r.node, TRUE, w.warned + r.warned, w.insert)
         ELSE IF node.ctx # "list"
         THEN \* cursor.InsertAfter panics: the node is not in a slice
              Walk(r.node, TRUE, w.warned + r.warned, w.insert)
         ELSE Walk(Renamed(r.node), FALSE, w.warned + r.warned, TRUE)
    ELSE IF node.sel = "InitFlags"
    THEN Walk(Renamed(fixInitFlags(node)), FALSE, w.warned, w.insert)
    ELSE w

tryPkgExprCall(name, w) ==
    LET node == w.node IN
    IF \/ w.panic
       \/ node.kind # "call"
       \/ node.x.form # "ident"
       \/ ~isPkgIdent(name, node.x)
    THEN w
    ELSE IF node.sel \in InfoNames
    THEN LET r == fixInfo(node) IN
         IF r.panic THEN Walk(r.node, TRUE, w.warned, w.insert)
         ELSE Walk(Renamed(r.node), FALSE, w.warned, w.insert)
    ELSE IF node.sel \in ErrorNames
    THEN LET r == fixError(node) IN
         IF r.panic THEN Walk(r.node, TRUE, w.warned + r.warned, w.insert)
         ELSE Walk(Renamed(r.node), FALSE, w.warned + r.warned, w.insert)
    ELSE IF node.sel = "V"
    THEN Walk(Renamed(node), FALSE, w.warned, w.insert)
    ELSE w

tryPkgSymbol(name, w) ==
    LET node == w.node IN
    IF \/ w.panic
       \/ node.kind \notin {"call", "ref"}
       \/ node.x.form # "ident"
       \/ node.x.name # name
       \/ node.x.obj
    THEN w
    ELSE IF node.sel = "Level"
    THEN Walk(Renamed(node), FALSE, w.warned, w.insert)
    ELSE w

tryTypedCall(pkgImport, w) ==
    LET node == w.node
        t == node.x.typ
        dot == LastDot(t)
        tp == Concat(SubSeq(t, 1, dot - 1))
        tt == Concat(SubSeq(t, dot + 1, Len(t)))
    IN IF \/ w.panic
          \/ node.kind # "call"
          \/ t = NoType
          \/ dot = 0
          \/ tp = ""
          \/ tt = ""
          \/ tp # pkgImport
       THEN w
       ELSE IF tt = "Verbose" /\ node.sel \in VerboseInfoNames
       THEN LET r == fixInfo(node) IN
            Walk(r.node, r.panic, w.warned, w.insert)
       ELSE w

\* The call name.V(n) that is the X of a "vcall" statement is a CallExpr of
\* its own, visited before the selector and the call around it: of the
\* handlers only tryPkgExprCall (case "V") can match it.
InnerCall(name, w) ==
    LET x == w.node.x IN
    IF w.node.kind = "call" /\ x.form = "vcall"
    THEN LET inner == tryPkgExprCall(name,
                         Walk(Stmt("call", "expr", Ident(x.name, x.obj, NoType),
                                   "V", <<Arg("intlit", "2", FALSE)>>),
                              FALSE, 0, FALSE))
         IN [w EXCEPT !.node.x.name = inner.node.x.name,
                      !.node.x.obj = inner.node.x.obj]
    ELSE w

\* The post-order callback of fix on the nodes of one statement: the inner
\* call, the SelectorExpr, the CallExpr, then the ExprStmt.  Each node is
\* offered to the four handlers in the order of lines 141-155; a handler
\* does nothing on a node that is not of its type.
VisitStmt(name, pkgImport, stmt) ==
    LET w0 == InnerCall(name, Walk(stmt, FALSE, 0, FALSE))
        w1 == tryPkgSymbol(name, w0)
        w2 == tryTypedCall(pkgImport, tryPkgExprCall(name, w1))
    IN tryPkgStmtCall(name, w2)

\* a.iter.step after the callback: InsertAfter makes Apply skip the new node.
CursorStep(insert) == IF insert THEN 2 ELSE 1

\* The printer and the parser on an argument: the text is kept, the node
\* shape is the one the text parses to.
ShapeOfText(a) ==
    IF a.shape = "ident" /\ a.text \in {"f()"} THEN "expr" ELSE a.shape

ReparseStmt(st) ==
    [st EXCEPT !.args = [k \in 1..Len(st.args) |->
                            [st.args[k] EXCEPT !.shape = ShapeOfText(st.args[k])]],
               !.inserted = FALSE]

ReparseFile(f) ==
    [f EXCEPT !.stmts = [k \in 1..Len(f.stmts) |-> ReparseStmt(f.stmts[k])]]

\* The types a new run records for the migrated file: a call log.V(n) is
\* no longer of a klog type.
RetypeStmt(st) ==
    IF st.x.form = "vcall" /\ st.x.name = "log" /\ ~st.x.obj
    THEN [st EXCEPT !.x.typ = NoType]
    ELSE st

RetypeFile(f) ==
    [f EXCEPT !.stmts = [k \in 1..Len(f.stmts) |-> RetypeStmt(f.stmts[k])]]

\* ---- the files the fix is run on ----
ImportSpec(name, path) == [Name |-> name, Path |-> Quote(path)]

ImportOptions ==
    { <<ImportSpec("", OtherPkg)>>,
      <<ImportSpec("", OtherPkg), ImportSpec("", StandardKlogPkg)>>,
      <<ImportSpec(KlogAlias, StandardKlogPkg)>>,
      <<ImportSpec("", StandardKlogPkg), ImportSpec(KlogAlias, StandardKlogPkg)>> }

ArgPool ==
    { StrLit(Quote("msg")),
      Arg("ident", "err", TRUE),
      Arg("ident", "userID", FALSE),
      Arg("expr", "f()", TRUE),
      Arg("intlit", "42", FALSE) }

RECURSIVE ArgListsOfLen(_)
ArgListsOfLen(k) ==
    IF k = 0 THEN {<<>>}
    ELSE UNION { {Append(s, a) : a \in ArgPool \ Range(s)} : s \in ArgListsOfLen(k - 1) }

ArgLists == UNION {ArgListsOfLen(k) : k \in 0..MaxArgs}

\* the package qualifier, under its own name and under the alias
PkgQuals == {Ident(KlogName, FALSE, NoType), Ident(KlogAlias, FALSE, NoType)}
\* a local variable klog of type klog.Verbose, and the call klog.V(2)
TypedQuals == {Ident(KlogName, TRUE, KlogVerbose), VCall(KlogName, FALSE, KlogVerbose)}

\* a local variable klog of a type of the file's own package
ShadowQuals == {Ident(KlogName, TRUE, LocalType)}

SelPool == {"Fatal", "Fatalln", "InitFlags", "Info", "Warningf", "Error", "V",
            "Level", "Flush"}
VerboseSelPool == {"Info", "Infoln", "Flush"}
ShadowSelPool == {"Fatal", "InitFlags", "Error", "Level"}
Ctxs == {"list", "single", "expr"}

Stmts ==
    {Stmt("call", c, x, s, a) : c \in Ctxs, x \in PkgQuals, s \in SelPool, a \in ArgLists}
    \cup {Stmt("call", c, x, s, a) :
             c \in Ctxs, x \in TypedQuals, s \in VerboseSelPool, a \in ArgLists}
    \cup {Stmt("call", c, x, s, a) :
             c \in Ctxs, x \in ShadowQuals, s \in ShadowSelPool, a \in ArgLists}
    \cup {Stmt("ref", "expr", x, s, <<>>) : x \in ShadowQuals, s \in ShadowSelPool}
    \cup {Stmt("ref", "expr", x, s, <<>>) :
             x \in PkgQuals \cup {Ident(KlogName, TRUE, KlogVerbose)}, s \in SelPool}
    \cup {PlainStmt}

File(imps, stmts) == [imports |-> imps, stmts |-> stmts]

Files == {File(i, <<s, PlainStmt>>) : i \in ImportOptions, s \in Stmts}
NoFile == {File(<<>>, <<>>)}

\* ---- the printed text of a file (format.Node) ----
RECURSIVE JoinArgs(_)
JoinArgs(args) ==
    IF args = <<>> THEN ""
    ELSE IF Len(args) = 1 THEN args[1].text
    ELSE args[1].text \o ", " \o JoinArgs(Tail(args))

QualText(x) == IF x.form = "vcall" THEN x.name \o ".V(2)" ELSE x.name

StmtText(st) ==
    IF st.kind = "plain" THEN "x++"
    ELSE IF st.kind = "ref" THEN "_ = " \o QualText(st.x) \o "." \o st.sel
    ELSE (IF st.ctx = "single" THEN "L: " ELSE IF st.ctx = "expr" THEN "defer " ELSE "")
         \o QualText(st.x) \o "." \o st.sel \o "(" \o JoinArgs(st.args) \o ")"

ImportText(s) == "import " \o (IF s.Name = "" THEN "" ELSE s.Name \o " ") \o s.Path

FileText(f) ==
    [imports |-> [k \in 1..Len(f.imports) |-> ImportText(f.imports[k])],
     stmts |-> [k \in 1..Len(f.stmts) |-> StmtText(f.stmts[k])]]

InitLogrAt(fs, pc) ==
    /\ orig \in fs
    /\ lfile = orig
    /\ lpc = pc
    /\ cur = 0
    /\ pkgName = ""
    /\ pass = 1
    /\ fixret = FALSE
    /\ warnings = 0
    /\ visited = <<>>
    /\ louts = 0
    /\ res1 = [file |-> orig, ret |-> FALSE]

\* fix, lines 116-139: find the import, resolve the package, rewrite the path
FixStart ==
    /\ UNCHANGED <<ivars, evars>>
    /\ lpc = "start"
    /\ LET i == getImportSpec(lfile.imports, StandardKlogPkg) IN
       \E buildOk \in BOOLEAN :
          IF i = 0 \/ ~buildOk
          THEN /\ fixret' = FALSE
               /\ lpc' = "returned"
               /\ UNCHANGED <<lfile, pkgName, cur>>
          ELSE /\ pkgName' = IF lfile.imports[i].Name # "" THEN lfile.imports[i].Name
                             ELSE KlogName
               /\ lfile' = [lfile EXCEPT !.imports[i].Path = Quote(TargetPkg)]
               /\ cur' = 1
               /\ lpc' = "walk"
               /\ UNCHANGED fixret
    /\ visited' = <<>>
    /\ UNCHANGED <<orig, pass, warnings, louts, res1>>

InsertAfter(stmts, i, st) == SubSeq(stmts, 1, i) \o <<st>> \o SubSeq(stmts, i + 1, Len(stmts))

\* astutil.Apply on the next statement of the list (lines 141-155)
FixVisit ==
    /\ UNCHANGED <<ivars, evars>>
    /\ lpc = "walk"
    /\ cur <= Len(lfile.stmts)
    /\ LET w == VisitStmt(pkgName, StandardKlogPkg, lfile.stmts[cur])
           put == [lfile.stmts EXCEPT ![cur] = w.node]
       IN /\ warnings' = warnings + w.warned
          /\ visited' = Append(visited, cur)
          /\ IF w.panic
             THEN /\ lfile' = [lfile EXCEPT !.stmts = put]
                  /\ lpc' = "panicked"
                  /\ UNCHANGED cur
             ELSE /\ lfile' = [lfile EXCEPT !.stmts =
                                  IF w.insert THEN InsertAfter(put, cur, ExitStmt) ELSE put]
                  /\ cur' = cur + CursorStep(w.insert)
                  /\ UNCHANGED lpc
    /\ UNCHANGED <<orig, pkgName, pass, fixret, louts, res1>>

\* fix, line 157
FixReturn ==
    /\ UNCHANGED <<ivars, evars>>
    /\ lpc = "walk"
    /\ cur > Len(lfile.stmts)
    /\ fixret' = TRUE
    /\ lpc' = "returned"
    /\ UNCHANGED <<orig, lfile, cur, pkgName, pass, warnings, visited, louts, res1>>

\* fixFile after Execute returned true: gofmt and parse again
LogrRestabilize ==
    /\ UNCHANGED <<ivars, evars>>
    /\ lpc = "returned"
    /\ fixret
    /\ lfile' = ReparseFile(lfile)
    /\ lpc' = "stable"
    /\ UNCHANGED <<orig, cur, pkgName, pass, fixret, warnings, visited, louts, res1>>

\* fixFile: if !fixed { return nil }
LogrSkip ==
    /\ UNCHANGED <<ivars, evars>>
    /\ lpc = "returned"
    /\ ~fixret
    /\ lpc' = "filedone"
    /\ UNCHANGED <<orig, lfile, cur, pkgName, pass, fixret, warnings, visited, louts, res1>>

\* fixFile: return f.HandleFix(info)
LogrOutput ==
    /\ UNCHANGED <<ivars, evars>>
    /\ lpc = "stable"
    /\ louts' = louts + 1
    /\ lpc' = "filedone"
    /\ UNCHANGED <<orig, lfile, cur, pkgName, pass, fixret, warnings, visited, res1>>

\* a second run of the tool, on what the first run left
Rerun ==
    /\ UNCHANGED <<ivars, evars>>
    /\ lpc = "filedone"
    /\ pass = 1
    /\ pass' = 2
    /\ res1' = [file |-> lfile, ret |-> fixret]
    /\ lfile' = RetypeFile(lfile)
    /\ lpc' = "start"
    /\ cur' = 0
    /\ louts' = 0
    /\ fixret' = FALSE
    /\ UNCHANGED <<orig, pkgName, warnings, visited>>

NextLogr ==
    \/ FixStart
    \/ FixVisit
    \/ FixReturn
    \/ LogrRestabilize
    \/ LogrSkip
    \/ LogrOutput
    \/ Rerun

InitImporter ==
    /\ InitImporterWith(Graphs)
    /\ InitFixerAt(None, FALSE)
    /\ InitLogrAt(NoFile, "idle")

InitFixer ==
    /\ InitImporterWith(NoGraph)
    /\ \E e \in Engines : InitFixerAt(e[1], e[2])
    /\ InitLogrAt(NoFile, "idle")

InitLogr ==
    /\ InitImporterWith(NoGraph)
    /\ InitFixerAt(None, FALSE)
    /\ InitLogrAt(Files, "start")

SpecImporter == InitImporter /\ [][NextImporter]_vars

SpecFixer == InitFixer /\ [][NextFixer]_vars

SpecLogr == InitLogr /\ [][NextLogr]_vars

(***************************************************************************)
(* Claims about the importer.                                              *)
(***************************************************************************)
Min(S) == CHOOSE x \in S : \A y \in S : x <= y

\* C1: once ImportFrom(path) has succeeded, the cache entry of path never
\* changes again, no later step makes a fast import, build lookup, parse or
\* type check for path, and every later ImportFrom(path) returns the
\* types.Package held by the entry.
CachedModuleIsReused ==
    [][\A p \in Paths : Populated(p) =>
          /\ packages'[p] = packages[p]
          /\ io'.path # p
          /\ \A k \in 1..Len(stack') : stack'[k].path = p => stack'[k].pc = "return"
          /\ (lastRet' # lastRet /\ lastRet'.path = p) =>
                /\ lastRet'.ret = Ok(packages[p].ParseInfo)
                /\ lastRet'.how \in {"hit", "load"}
      ]_vars

\* C1 witness: the last of several top-level requests was answered from
\* the cache while another path had been resolved in between.
CachedModuleIsReusedWitness ==
    /\ calls = MaxCalls
    /\ stack = <<>>
    /\ lastRet.how = "hit"
    /\ lastRet.path = first
    /\ result = Ok(packages[first].ParseInfo)
    /\ \E q \in Paths \ {first} : Populated(q)

(***************************************************************************)
(* Claims about the fixer.                                                 *)
(***************************************************************************)
Changes(log) == Cardinality({k \in 1..Len(log) : log[k].changed})

\* C4: in fixFile the k-th Execute call is the one of the k-th fix, a fix is
\* only invoked on a tree that was re-parsed after every earlier reported
\* change, and so a fix that runs after one that reported a change is given
\* a later tree generation.
FixesSeeReparsedTrees ==
    /\ \A k \in 1..Len(elog) : elog[k].rule = k
    /\ \A i, j \in 1..Len(elog) :
          (i < j /\ elog[i].changed) => elog[j].gen > elog[i].gen
    /\ \A k \in 1..Len(elog) :
          elog[k].gen = Changes(SubSeq(elog, 1, k - 1))
    /\ (epc = "rule" /\ erule <= NumFixes) => gen = Changes(elog)

\* C4 witness: every fix has run on a file and one before the last
\* reported a change.
FixesSeeReparsedTreesWitness ==
    /\ Len(elog) = NumFixes
    /\ \E k \in 1..(NumFixes - 1) : elog[k].changed
    /\ elog[NumFixes].gen >= 1

Outputs(f) == {k \in 1..Len(out) : out[k].file = f}

\* C5: no file gets more than one output step; a file whose processing has
\* returned got one exactly if some fix reported a change and every
\* formatting and re-parse of it succeeded, a file no fix reported a change
\* for got none, and an output step is only made after all fixes have run.
OutputOncePerChangedFile ==
    \A f \in 1..NumFiles :
        /\ Cardinality(Outputs(f)) <= 1
        /\ hist[f].returned =>
              (Outputs(f) # {} <=> (hist[f].changed /\ hist[f].stable))
        /\ ~hist[f].changed => Outputs(f) = {}
        /\ \A k \in Outputs(f) : out[k].ran = NumFixes

\* C5 witness: FixPackage has returned nil, one file got its output step
\* and another, which no fix changed, got none.
OutputOncePerChangedFileWitness ==
    /\ epc = "done"
    /\ \E f, g \in 1..NumFiles :
          /\ Cardinality(Outputs(f)) = 1
          /\ hist[f].changed
          /\ hist[g].returned
          /\ ~hist[g].changed
          /\ Outputs(g) = {}

\* An upper bound on the steps one activation of ImportFrom has left.
FrameWeight(f) ==
    CASE f.pc = "return" -> 1
      [] f.pc = "fastbuild" -> 2
      [] f.pc = "check" -> 3 + Len(imports[f.path]) - f.idx
      [] f.pc = "parse" -> 3 + MaxImports + Cardinality(pending)
      [] f.pc = "build" -> 4 + MaxImports + MaxFiles
      [] f.pc = "fast" -> 5 + MaxImports + MaxFiles

RECURSIVE SumWeights(_)
SumWeights(st) ==
    IF st = <<>> THEN 0 ELSE FrameWeight(Head(st)) + SumWeights(Tail(st))

Measure ==
    (6 + MaxImports + MaxFiles) * Cardinality({p \in Paths : packages[p].state = "absent"})
        + SumWeights(stack)

\* C2: no path is on the resolution chain twice and every step of a running
\* resolution lowers a bounded measure, so resolution terminates; on a new
\* importer a request that closes a cycle makes the top-level request fail
\* with the import-loop error naming the path of that request, and for
\* packages p and q that import each other and are both loaded from source
\* that path is the one requested first.
CycleIsReported ==
    /\ [](\A j, k \in 1..Len(stack) : j # k => stack[j].path # stack[k].path)
    /\ [][stack # <<>> => Measure' < Measure]_vars
    /\ []((calls = 1 /\ stack = <<>> /\ closedBy # None) =>
            result = CycleError(closedBy))
    /\ [](\A p, q \in Paths :
            (/\ calls = 1 /\ stack = <<>> /\ first = p /\ p # q
             /\ imports[p] = <<q>> /\ imports[q] = <<p>>
             /\ {p, q} \subseteq sourced) =>
               result = CycleError(p))

\* C2 witness: the first request, for a package in a two-package cycle with
\* both packages parsed from source, has returned the import-loop error.
CycleIsReportedWitness ==
    /\ calls = 1
    /\ stack = <<>>
    /\ \E q \in Paths \ {first} :
          /\ imports[first] = <<q>>
          /\ imports[q] = <<first>>
          /\ {first, q} \subseteq sourced
    /\ result = CycleError(first)
    /\ closedBy = first

\* C3: when parsePackageFiles has joined its goroutines and some file
\* failed to parse, the error it returns is the one of the failing file
\* with the lowest index, whatever the order the goroutines finished in.
FirstFileErrorIsReturned ==
    [][(stack # <<>> /\ Top.pc = "parse" /\ pending = {}) =>
          LET bad == {o.file : o \in {x \in Range(order) : ~x.good}} IN
          IF bad = {}
          THEN stack'[Len(stack)].pc = "check"
          ELSE /\ stack'[Len(stack)].pc = "return"
               /\ stack'[Len(stack)].ret = ParseError(Top.path, Min(bad))
      ]_vars

\* C3 witness: two files failed, the one with the higher index first, and
\* ImportFrom is returning the error of the lower one.
FirstFileErrorIsReturnedWitness ==
    /\ stack # <<>>
    /\ Top.pc = "return"
    /\ Len(order) >= 2
    /\ \E i, j \in 1..Len(order) :
          /\ i < j
          /\ order[i].file > order[j].file
          /\ ~order[i].good
          /\ ~order[j].good
          /\ Top.ret = ParseError(Top.path, order[j].file)
          /\ \A m \in 1..Len(order) : ~order[m].good => order[m].file >= order[j].file


\* ---- claims on the logr fix ----

\* The statement the cursor is at, before and after a step of the walk.
Here == lfile.stmts[cur]
After == lfile'.stmts[cur]

VisitStep == lpc = "walk" /\ cur <= Len(lfile.stmts) /\ visited' # visited

\* The node is a call fixError is applied to: an Error-family call on the
\* package anywhere, or a Fatal-family call on it as an expression statement.
ErrorRewrite(st) ==
    /\ st.kind = "call"
    /\ st.x = Ident(pkgName, FALSE, NoType)
    /\ \/ st.sel \in ErrorNames
       \/ st.sel \in FatalNames /\ st.ctx \in {"list", "single"}

Qualifying(args) == {i \in 1..Len(args) : args[i].err}
FirstQualifying(args) ==
    CHOOSE i \in Qualifying(args) : \A j \in 1..(i - 1) : j \notin Qualifying(args)
Others(args) ==
    IF Qualifying(args) = {} THEN args
    ELSE [k \in 1..(Len(args) - 1) |->
             IF k < FirstQualifying(args) THEN args[k] ELSE args[k + 1]]

\* C6: when fixError completes on a call, the new argument list is: the
\* text of the first error-capable argument by position (or the placeholder
\* FIXME__unknown_error_expr if there is none), then the format literal, then
\* one key/value pair for each remaining argument in order; the chosen
\* argument, and only it, is gone from the values.
ErrorArgumentFirst ==
    [][ (VisitStep /\ ErrorRewrite(Here) /\ lpc' = "walk") =>
            LET old == Here.args
                rest == Others(old)
                new == After.args
            IN /\ After.sel = "Error"
               /\ new[1].text = IF Qualifying(old) = {} THEN UnknownErrorExpr
                                ELSE old[FirstQualifying(old)].text
               /\ Len(rest) = IF Qualifying(old) = {} THEN Len(old) ELSE Len(old) - 1
               /\ Len(new) = 2 * Len(rest)
               /\ new[2] = rest[1]
               /\ new[2].shape = "strlit"
               /\ \A j \in 2..Len(rest) :
                     /\ new[2 * j] = rest[j]
                     /\ new[2 * j - 1].shape = "strlit" ]_vars

\* Error("msg", err, userID) became Error(err, "msg", "userID", userID).
ErrorArgumentFirstWitness ==
    /\ lpc = "filedone"
    /\ pass = 1
    /\ StmtText(orig.stmts[1]) = "klog.Error(\"msg\", err, userID)"
    /\ StmtText(lfile.stmts[1]) = "log.Error(err, \"msg\", \"userID\", userID)"

\* C7: on a call fixError is applied to, the warning is printed once if two
\* or more arguments are error-capable and not at all otherwise; with two or
\* more, the rewrite still goes on with the first of them by position: it is
\* the one taken out of the list, and if the remaining list starts with the
\* format literal it is the first argument of the new call.
AmbiguityWarnedOnce ==
    [][ (VisitStep /\ ErrorRewrite(Here)) =>
            LET old == Here.args
                n == Cardinality(Qualifying(old))
            IN /\ warnings' = warnings + (IF n >= 2 THEN 1 ELSE 0)
               /\ n >= 2 =>
                     IF Others(old)[1].shape = "strlit"
                     THEN /\ After.args[1].text = old[FirstQualifying(old)].text
                          /\ After.args[2] = Others(old)[1]
                     ELSE After.args = Others(old) ]_vars

\* Error("msg", f(), err): one warning, f() chosen.
AmbiguityWarnedOnceWitness ==
    /\ lpc = "filedone"
    /\ pass = 1
    /\ warnings = 1
    /\ StmtText(orig.stmts[1]) = "klog.Error(\"msg\", f(), err)"
    /\ StmtText(lfile.stmts[1]) = "log.Error(f(), \"msg\", \"err\", err)"

\* C8: a Fatal-family call on the package that is an expression statement
\* and has its format literal in place is rewritten in one step of the walk
\* to log.Error(...), exactly one os.Exit(255) is put right after it, and the
\* walk goes on behind the new statement; no other step inserts anything.
FatalGetsExit ==
    [][ VisitStep =>
            IF /\ Here.kind = "call"
               /\ Here.ctx \in {"list", "single"}
               /\ Here.x = Ident(pkgName, FALSE, NoType)
               /\ Here.sel \in FatalNames
               /\ Others(Here.args) # <<>>
               /\ Others(Here.args)[1].shape = "strlit"
            THEN /\ lpc' = "walk"
                 /\ After.sel = "Error"
                 /\ After.x.name = "log"
                 /\ Len(lfile'.stmts) = Len(lfile.stmts) + 1
                 /\ lfile'.stmts[cur + 1] = ExitStmt
                 /\ cur' = cur + 2
            ELSE Len(lfile'.stmts) = Len(lfile.stmts) ]_vars

HasMarker(st) ==
    \/ st.sel = InitFlagsMarker
    \/ \E k \in 1..Len(st.args) : st.args[k].text \in {UnknownErrorExpr, Quote(UnknownKey)}

Unsupported(st) ==
    \/ st.kind = "call" /\ st.sel = "InitFlags"
    \/ st.kind = "ref" /\ st.sel = "Level"

\* C9 as stated: after a run that changed the file, an InitFlags call on the
\* package and a bare Level reference on the package both carry a FIXME
\* marker.
UnsupportedGetMarker ==
    (/\ lpc = "filedone"
     /\ pass = 1
     /\ fixret
     /\ Unsupported(orig.stmts[1])
     /\ orig.stmts[1].x = Ident(pkgName, FALSE, NoType))
        => HasMarker(lfile.stmts[1])

\* C9, amended: after a run that changed the file, an InitFlags call on the
\* package that is an expression statement is log.FIXME__InitFlags_is_not_
\* supported(...) with its arguments as they were; a bare Level reference on
\* the package is log.Level, with no marker; an InitFlags call that is not an
\* expression statement is as it was.
UnsupportedAsCoded ==
    (/\ lpc = "filedone"
     /\ pass = 1
     /\ fixret
     /\ Unsupported(orig.stmts[1])
     /\ orig.stmts[1].x = Ident(pkgName, FALSE, NoType))
        => LET old == orig.stmts[1]
               new == lfile.stmts[1]
           IN /\ new.args = old.args
              /\ IF old.kind = "ref"
                 THEN new.sel = "Level" /\ new.x.name = "log" /\ ~HasMarker(new)
                 ELSE IF old.ctx \in {"list", "single"}
                 THEN new.sel = InitFlagsMarker /\ new.x.name = "log"
                 ELSE new.sel = "InitFlags" /\ new.x = old.x

\* A file with a bare klog.Level has been through the fix.
UnsupportedAsCodedWitness ==
    /\ lpc = "filedone"
    /\ pass = 1
    /\ fixret
    /\ StmtText(orig.stmts[1]) = "_ = klog.Level"
    /\ StmtText(lfile.stmts[1]) = "_ = log.Level"

\* C10: a second run on a file the first run migrated returns false, makes
\* no output step and leaves the text of the file as the first run left it.
SecondRunChangesNothing ==
    (pass = 2 /\ lpc = "filedone" /\ res1.ret)
        => /\ ~fixret
           /\ louts = 0
           /\ FileText(lfile) = FileText(res1.file)

\* The statement still names the package the fix was run for.
NamesPackage(st) == st.kind \in {"call", "ref"} /\ st.x.name = pkgName /\ ~st.x.obj

\* C11: after a run of the fix that changed the file, no statement of the
\* file has a selector whose qualifier is the name of the source package.
NoQualifierRemains ==
    (lpc = "filedone" /\ pass = 1 /\ fixret)
        => \A k \in 1..Len(lfile.stmts) : ~NamesPackage(lfile.stmts[k])

ImportsSource(f) == \E k \in 1..Len(f.imports) : f.imports[k].Path = "\"k8s.io/klog\""

\* C12: on a file with no import of the source package fix returns false and
\* the file stays exactly as it was given, import list included; fixFile
\* never formats or re-parses it and makes no output step for it.
UnrelatedFileUntouched ==
    ~ImportsSource(orig)
        => /\ lfile = orig
           /\ ~fixret
           /\ louts = 0
           /\ lpc \in {"start", "returned", "filedone"}

\* A file that only imports fmt, although it has a statement klog.Info("msg"),
\* has been through the fix.
UnrelatedFileUntouchedWitness ==
    /\ lpc = "filedone"
    /\ ~ImportsSource(orig)
    /\ StmtText(orig.stmts[1]) = "klog.Info(\"msg\")"
    /\ lfile = orig

\* C13: a call or selector whose qualifier is an identifier bound to a
\* declaration keeps that qualifier, gets no exit statement and prints no
\* warning, whatever its name and selector; if the step changes the node at
\* all, it is the typed-call handler renaming an Info method of a klog.Verbose
\* value.
ShadowedIsNotThePackage ==
    [][ (/\ VisitStep
         /\ Here.kind \in {"call", "ref"}
         /\ Here.x.form = "ident"
         /\ Here.x.obj) =>
            /\ After.x = Here.x
            /\ Len(lfile'.stmts) = Len(lfile.stmts)
            /\ warnings' = warnings
            /\ After # Here =>
                  /\ Here.x.typ = KlogVerbose
                  /\ Here.sel \in VerboseInfoNames
                  /\ After.sel = "Info" ]_vars

\* A file importing klog, in which klog.Fatal("msg") is a call on a local
\* variable klog, has been through the fix with the statement as it was.
ShadowedIsNotThePackageWitness ==
    /\ lpc = "filedone"
    /\ pass = 1
    /\ fixret
    /\ pkgName = "klog"
    /\ orig.stmts[1].x.obj
    /\ orig.stmts[1].ctx = "list"
    /\ StmtText(orig.stmts[1]) = "klog.Fatal(\"msg\")"
    /\ lfile.stmts = orig.stmts

\* The node is a call fixInfo is applied to: an informational call on the
\* package, or an Info method of a klog.Verbose value.
InfoRewrite(st) ==
    /\ st.kind = "call"
    /\ \/ st.x = Ident(pkgName, FALSE, NoType) /\ st.sel \in InfoNames
       \/ st.x.typ = KlogVerbose /\ st.sel \in VerboseInfoNames

StartsWithLiteral(args) == args # <<>> /\ args[1].shape = "strlit"

\* C14 as stated: a step on an informational or error-family call panics if
\* the first argument of the call is not a string literal, and goes on only
\* if it is one.
FirstArgumentMustBeLiteral ==
    [][ (VisitStep /\ (InfoRewrite(Here) \/ ErrorRewrite(Here))) =>
            /\ ~StartsWithLiteral(Here.args) => lpc' = "panicked"
            /\ lpc' = "walk" => StartsWithLiteral(Here.args) ]_vars

\* The argument list getFormatString is given.
FormatArgs(st) == IF ErrorRewrite(st) THEN Others(st.args) ELSE st.args

\* C14, amended: the argument that has to be a string literal is the first
\* one of the list getFormatString is given: the source arguments for an
\* informational call, the source arguments without the chosen error
\* argument for an error-family call.  If it is not, the step panics and the
\* run makes no output; a step goes on only if it is.
FormatArgumentMustBeLiteral ==
    /\ [](lpc = "panicked" => louts = 0)
    /\ [][ (VisitStep /\ (InfoRewrite(Here) \/ ErrorRewrite(Here))) =>
              /\ ~StartsWithLiteral(FormatArgs(Here)) =>
                    lpc' = "panicked" /\ louts' = louts
              /\ lpc' = "walk" => StartsWithLiteral(FormatArgs(Here)) ]_vars

\* klog.Error(err, "msg"), whose first argument is no literal, was rewritten.
FormatArgumentMustBeLiteralWitness ==
    /\ lpc = "filedone"
    /\ pass = 1
    /\ StmtText(orig.stmts[1]) = "klog.Error(err, \"msg\")"
    /\ StmtText(lfile.stmts[1]) = "log.Error(err, \"msg\")"

\* C15: every Execute call is given a type oracle computed for the tree
\* generation it is given.
TypeOracleIsCurrent ==
    \A k \in 1..Len(elog) : elog[k].types = elog[k].gen

\* C16: when the processing of a package has failed at a file (formatting,
\* re-parse or output step returned an error), no output step has been made
\* for any file processed before the failing one.
FailureLeavesNoOutput ==
    epc = "failed" => \A k \in 1..Len(out) : out[k].file = efile

OnChain(p) == \E k \in 1..Len(stack) : stack[k].path = p

\* C17: a cache entry is the in-progress sentinel only while a resolution of
\* its path is on the resolution chain, and an ImportFrom made while the
\* chain is empty never returns the import-loop error.
SentinelOnlyWhileResolving ==
    /\ \A p \in Paths : packages[p].state = "loading" => OnChain(p)
    /\ ~(stack = <<>> /\ lastRet.how = "loop")

\* The frame of the ImportFrom call whose fast import has just succeeded.
FastImported == stack # <<>> /\ Top.pc = "fastbuild"
SameCall == Len(stack') = Len(stack) /\ stack'[Len(stack)].path = Top.path

\* C18 as stated: after a successful fast import the call returns
\* successfully, with the cache entry holding the build metadata, the fast
\* type information and no syntax trees, and nothing is parsed.
FastImportAlwaysReturnsPackage ==
    [][ FastImported =>
            /\ SameCall
            /\ stack'[Len(stack)].pc = "return"
            /\ stack'[Len(stack)].ret.ok
            /\ packages'[Top.path].state = "loaded"
            /\ packages'[Top.path].Files = <<>>
            /\ UNCHANGED <<pending, files, errors, order, sourced>> ]_vars

\* C18, amended: after a successful fast import the call goes straight to its
\* return and parses nothing.  If the build lookup that follows succeeds, it
\* returns the fast package and the cache entry holds the build metadata,
\* that package and no syntax trees; if the lookup fails, it returns the
\* lookup's error and the cache entry stays the in-progress sentinel.  A
\* call starts the source path only from a failed fast import.
FastImportSkipsSource ==
    /\ [][ FastImported =>
              /\ SameCall
              /\ stack'[Len(stack)].pc = "return"
              /\ UNCHANGED <<pending, files, errors, order, sourced>>
              /\ IF stack'[Len(stack)].ret.ok
                 THEN /\ packages'[Top.path].state = "loaded"
                      /\ packages'[Top.path].BuildInfo.path = Top.path
                      /\ packages'[Top.path].ParseInfo = stack'[Len(stack)].ret.pkg
                      /\ packages'[Top.path].ParseInfo.via = "fast"
                      /\ packages'[Top.path].Files = <<>>
                 ELSE /\ stack'[Len(stack)].ret.kind = "build"
                      /\ packages'[Top.path] = packages[Top.path]
                      /\ packages[Top.path].state = "loading" ]_vars
    /\ [][ (stack # <<>> /\ SameCall /\ Top.pc # "build"
            /\ stack'[Len(stack)].pc = "build") =>
              Top.pc = "fast" /\ io' = [path |-> Top.path, op |-> "fast"] ]_vars

\* A request was answered from a fast import: the entry has no trees and no
\* file of the package was parsed.
FastImportSkipsSourceWitness ==
    /\ stack = <<>>
    /\ calls = 1
    /\ result.ok
    /\ packages[first].state = "loaded"
    /\ packages[first].ParseInfo.via = "fast"
    /\ packages[first].Files = <<>>
    /\ first \notin sourced

Parsing == stack # <<>> /\ Top.pc = "parse"
AllTrees(p, n) == [k \in 1..n |-> [path |-> p, file |-> k]]

\* C19: a parse task writes the tree or the error of file k into slot k and
\* leaves every other slot alone; the call leaves the parse phase only when
\* no task is pending, and goes on to the type checker exactly if no slot
\* holds an error; the files the type checker is given are the trees of the
\* declared files in their declared order, whatever order the tasks ended in.
CheckOnlyAfterAllParsed ==
    /\ [][ (Parsing /\ pending' # pending) =>
              \E k \in pending :
                 /\ pending' = pending \ {k}
                 /\ stack' = stack
                 /\ \A j \in (1..Len(files)) \ {k} :
                       files'[j] = files[j] /\ errors'[j] = errors[j]
                 /\ \/ errors'[k].ok /\ files'[k] = [path |-> Top.path, file |-> k]
                    \/ ~errors'[k].ok /\ errors'[k].file = k ]_vars
    /\ [][ (Parsing /\ stack' # stack) =>
              /\ pending = {}
              /\ SameCall
              /\ stack'[Len(stack)].pc \in {"check", "return"}
              /\ stack'[Len(stack)].pc = "check"
                    <=> \A k \in 1..Len(errors) : errors[k].ok ]_vars
    /\ [](\A i \in 1..Len(stack) :
             stack[i].pc = "check" =>
                stack[i].files = AllTrees(stack[i].path, stack[i].n))
    /\ [][ (io' # io /\ io'.op = "check") =>
              stack # <<>> /\ Top.pc = "check" /\ io'.path = Top.path ]_vars

\* The parse tasks of a package ended in another order than declared, the
\* last file first, and the package is with the type checker.
CheckOnlyAfterAllParsedWitness ==
    /\ stack # <<>>
    /\ Top.pc = "check"
    /\ Len(order) = MaxFiles
    /\ order[1].file = MaxFiles
    /\ Top.files = AllTrees(Top.path, MaxFiles)

\* The key literal the rewrites put in front of a value.
ExpectedKey(a) ==
    [shape |-> "strlit",
     text |-> IF a.shape = "ident" THEN "\"" \o a.text \o "\""
              ELSE "\"FIXME__unknown_key\"",
     err |-> FALSE]

\* C20: when fixInfo or fixError completes on a call with n arguments, the
\* new arguments are the head (the format literal, for an error call the
\* error expression before it) followed by one key and the value for each
\* other source argument, the values in their source order and each once:
\* 1 + 2(n-1) arguments for an informational call, 2 + 2(n-2) for an error
\* call with a chosen error argument.
ArgumentsBecomePairs ==
    [][ (VisitStep /\ (InfoRewrite(Here) \/ ErrorRewrite(Here)) /\ lpc' = "walk") =>
            LET n == Len(Here.args)
                rest == FormatArgs(Here)
                h == IF ErrorRewrite(Here) THEN 2 ELSE 1
                new == After.args
            IN /\ new[h] = rest[1]
               /\ Len(new) = h + 2 * (Len(rest) - 1)
               /\ \A j \in 2..Len(rest) :
                     /\ new[h + 2 * (j - 1)] = rest[j]
                     /\ new[h + 2 * (j - 1) - 1] = ExpectedKey(rest[j])
               /\ InfoRewrite(Here) => Len(new) = 1 + 2 * (n - 1)
               /\ (ErrorRewrite(Here) /\ Qualifying(Here.args) # {}) =>
                     Len(new) = 2 + 2 * (n - 2) ]_vars

\* Info("msg", userID, 42) became Info("msg", "userID", userID,
\* "FIXME__unknown_key", 42).
ArgumentsBecomePairsWitness ==
    /\ lpc = "filedone"
    /\ pass = 1
    /\ StmtText(orig.stmts[1]) = "klog.Info(\"msg\", userID, 42)"
    /\ StmtText(lfile.stmts[1])
          = "log.Info(\"msg\", \"userID\", userID, \"FIXME__unknown_key\", 42)"

====
